---- MODULE Spec2Model ----
(***************************************************************************)
(* Retrieval pipeline (filter builder, vector-index search, ingestion) and *)
(* the LLM structured-output retry loop of the learning-path designer.     *)
(*                                                                         *)
(*   Spec        ingestion into the vector index and SearchService.search  *)
(*   SpecFilter  SearchService.build_filter as a pure function             *)
(*   SpecRetry   LLMClient.generate_plan / LLMClient.generate_quiz         *)
(*   SpecRerank  RerankService.rerank and the endpoints that call it       *)
(*   SpecEmbed   EmbeddingService.generate_embeddings and its callers      *)
(*   SpecApi     planner and quiz endpoints and their database client      *)
(*   SpecIngest  resource records and index points written by ingestion    *)
(*   SpecLazy    lazily built module-level singletons under concurrency    *)
(*   SpecExtract extraction of the JSON object from a model reply          *)
(***************************************************************************)
EXTENDS Integers, Sequences, FiniteSets, TLC

VARIABLES
    index,          \* Qdrant collection: point id -> [payload, sim]
    client,         \* SearchService.client is not None
    status,         \* search request: "idle", "ok", "embed_error", "index_error"
    filters,        \* the filters argument of the search that returned
    top_k,          \* the top_k argument of the search that returned
    qdrant_filter,  \* the predicate search handed to the index
    results,        \* the list search returned
    sf_input,       \* SpecFilter: the search_filter argument of build_filter
    sf_output,      \* SpecFilter: what build_filter returned
    sf_pc,          \* SpecFilter: "input" before the call, "built" after it
    llm,            \* SpecRetry: per client, the state of one generate call
    search_calls,   \* backend calls of the search request: [embed, index]
    rr,             \* SpecRerank: the state of one rerank call and its caller
    emb,            \* SpecEmbed: the last batch of texts handed to a backend
    api,            \* SpecApi: database, client singletons, stored rows, last request
    store,          \* SpecIngest: resource records, index points, last ingestion
    lazy,           \* SpecLazy: module-level singletons and the requests building them
    ext             \* SpecExtract: a model reply and what the client parsed from it

vars == <<index, client, status, filters, top_k, qdrant_filter, results,
          sf_input, sf_output, sf_pc, llm, search_calls, rr, emb,
          api, store, lazy, ext>>

searchVars == <<index, client, status, filters, top_k, qdrant_filter, results,
                search_calls>>
filterVars == <<sf_input, sf_output, sf_pc>>
pipelineVars == <<searchVars, filterVars, llm, rr, emb>>
serviceVars == <<api, store, lazy, ext>>

(***************************************************************************)
(* Python values.  None of an Optional[int] is NoneInt, None of an         *)
(* Optional[str] (and a key a payload does not carry) is NoneStr, a key a  *)
(* dict does not carry is Missing.                                         *)
(***************************************************************************)
NoneInt == -1
NoneStr == "<None>"
Missing == "<missing>"

GLOBAL == "global"

\* bounds of the model
MaxPoints == 2
MaxTopK == 2

PointIds == 1..MaxPoints

\* tenant ids a filter may carry, and those a point may be owned by
FilterTenants == {Missing, GLOBAL, "acme"}
PayloadTenants == {NoneStr, GLOBAL, "acme", "beta"}

Levels == 0..2

Min(a, b) == IF a <= b THEN a ELSE b

(***************************************************************************)
(* The search_filter argument: None, the empty mapping {}, or a dict.  A   *)
(* dict made by SearchFilter.model_dump() carries every key of the model,  *)
(* None where unset; tenant_id is no field of SearchFilter, so a dict      *)
(* either lacks the key or carries a string put there by a direct caller.  *)
(***************************************************************************)
NoFilter ==
    [kind |-> "None", tenant_id |-> Missing, level |-> NoneInt,
     max_duration_min |-> NoneInt, media_type |-> NoneStr, provider |-> NoneStr]

EmptyDict ==
    [kind |-> "{}", tenant_id |-> Missing, level |-> NoneInt,
     max_duration_min |-> NoneInt, media_type |-> NoneStr, provider |-> NoneStr]

FilterDicts ==
    [kind : {"dict"},
     tenant_id : FilterTenants,
     level : {NoneInt, 0, 1},
     max_duration_min : {NoneInt, 0, 1},
     media_type : {NoneStr, "", "video"},
     provider : {NoneStr, "", "coursera"}]

FilterInputs == {NoFilter, EmptyDict} \cup FilterDicts

\* payloads a point of the collection may carry
Payloads ==
    [tenant_id : PayloadTenants,
     level : {NoneInt} \cup Levels,
     duration_min : {NoneInt, 0, 1, 2},
     media_type : {NoneStr, "video", "article"},
     provider : {NoneStr, "coursera", "youtube"}]

(***************************************************************************)
(* Qdrant predicates: Filter(must=[...]) over FieldCondition(match),       *)
(* FieldCondition(range lte) and a nested Filter(should=[...]).            *)
(***************************************************************************)
FieldMatch(k, v) ==
    [kind |-> "match", key |-> k, value |-> v, lte |-> NoneInt, should |-> <<>>]

FieldRange(k, n) ==
    [kind |-> "range", key |-> k, value |-> NoneStr, lte |-> n, should |-> <<>>]

ShouldFilter(cs) ==
    [kind |-> "should", key |-> "", value |-> NoneStr, lte |-> NoneInt, should |-> cs]

MustFilter(cs) == [isNone |-> FALSE, must |-> cs]

\* the Python None build_filter may return: a query without any predicate
NonePredicate == [isNone |-> TRUE, must |-> <<>>]

\* dict.get(key) is truthy: not None, not 0, not ""
TruthyInt(v) == v # NoneInt /\ v # 0
TruthyStr(v) == v # NoneStr /\ v # Missing /\ v # ""

\* `not search_filter`: None and the empty mapping are falsy
FilterIsFalsy(sf) == sf.kind \in {"None", "{}"}

DefaultFilter_MatchAll == NonePredicate

DefaultFilter == MustFilter(<<FieldMatch("tenant_id", GLOBAL)>>)

TenantCondition_OnlyTenant(sf) ==
    LET tenant_id == IF sf.tenant_id = Missing THEN GLOBAL ELSE sf.tenant_id
    IN  <<FieldMatch("tenant_id", tenant_id)>>

TenantCondition_NoneWhenGlobal(sf) ==
    LET tenant_id == IF sf.tenant_id = Missing THEN GLOBAL ELSE sf.tenant_id
    IN  IF tenant_id = GLOBAL
        THEN <<>>
        ELSE <<ShouldFilter(<<FieldMatch("tenant_id", GLOBAL),
                              FieldMatch("tenant_id", tenant_id)>>)>>

TenantCondition(sf) ==
    LET tenant_id == IF sf.tenant_id = Missing THEN GLOBAL ELSE sf.tenant_id
    IN  IF tenant_id = GLOBAL
        THEN <<FieldMatch("tenant_id", GLOBAL)>>
        ELSE <<ShouldFilter(<<FieldMatch("tenant_id", GLOBAL),
                              FieldMatch("tenant_id", tenant_id)>>)>>

LevelCondition_Truthy(sf) ==
    IF TruthyInt(sf.level) THEN <<FieldRange("level", sf.level)>> ELSE <<>>

LevelCondition(sf) ==
    IF sf.level # NoneInt THEN <<FieldRange("level", sf.level)>> ELSE <<>>

DurationCondition(sf) ==
    IF TruthyInt(sf.max_duration_min)
    THEN <<FieldRange("duration_min", sf.max_duration_min)>>
    ELSE <<>>

MediaTypeCondition(sf) ==
    IF TruthyStr(sf.media_type)
    THEN <<FieldMatch("media_type", sf.media_type)>>
    ELSE <<>>

ProviderCondition(sf) ==
    IF TruthyStr(sf.provider)
    THEN <<FieldMatch("provider", sf.provider)>>
    ELSE <<>>

build_filter_DropsOthers(sf) ==
    IF FilterIsFalsy(sf)
    THEN DefaultFilter
    ELSE MustFilter(TenantCondition(sf))

build_filter(sf) ==
    IF FilterIsFalsy(sf)
    THEN DefaultFilter
    ELSE LET conditions == TenantCondition(sf) \o LevelCondition(sf)
                           \o DurationCondition(sf) \o MediaTypeCondition(sf)
                           \o ProviderCondition(sf)
         IN  IF conditions = <<>> THEN NonePredicate ELSE MustFilter(conditions)

(***************************************************************************)
(* How the index evaluates a predicate on a payload: a match or a range    *)
(* on a key the payload lacks (or holds null for) is false; should is OR,  *)
(* must is AND; a query without a predicate matches every point.           *)
(***************************************************************************)
PayloadStr(p, k) ==
    CASE k = "tenant_id" -> p.tenant_id
      [] k = "media_type" -> p.media_type
      [] k = "provider" -> p.provider
      [] OTHER -> NoneStr

PayloadInt(p, k) ==
    CASE k = "level" -> p.level
      [] k = "duration_min" -> p.duration_min
      [] OTHER -> NoneInt

FieldHolds(c, p) ==
    IF c.kind = "match"
    THEN PayloadStr(p, c.key) # NoneStr /\ PayloadStr(p, c.key) = c.value
    ELSE PayloadInt(p, c.key) # NoneInt /\ PayloadInt(p, c.key) <= c.lte

ConditionHolds(c, p) ==
    IF c.kind = "should"
    THEN \E i \in DOMAIN c.should : FieldHolds(c.should[i], p)
    ELSE FieldHolds(c, p)

Matches(pred, p) ==
    pred.isNone \/ \A i \in DOMAIN pred.must : ConditionHolds(pred.must[i], p)

(***************************************************************************)
(* SpecFilter: build_filter applied to every input.                        *)
(***************************************************************************)
FilterInit ==
    /\ sf_input \in FilterInputs
    /\ sf_output = NonePredicate
    /\ sf_pc = "input"

BuildFilter ==
    /\ sf_pc = "input"
    /\ sf_output' = build_filter(sf_input)
    /\ sf_pc' = "built"
    /\ UNCHANGED sf_input

\* no backend call made yet
NoCalls == [embed |-> 0, index |-> 0]

SearchIdle ==
    /\ index = <<>>
    /\ client = FALSE
    /\ status = "idle"
    /\ filters = NoFilter
    /\ top_k = 1
    /\ qdrant_filter = NonePredicate
    /\ results = <<>>
    /\ search_calls = NoCalls

FilterIdle ==
    /\ sf_input = NoFilter
    /\ sf_output = NonePredicate
    /\ sf_pc = "input"

(***************************************************************************)
(* SpecRetry: LLMClient.generate_plan (planner) and LLMClient.generate_quiz *)
(* (quiz), one invocation of each, driven by the same backend: every step  *)
(* hands one model outcome to each client whose loop is still running.     *)
(***************************************************************************)
Clients == {"plan", "quiz"}

max_retries == 3

\* distinct texts of one kind a backend may answer with
MaxVariants == 2

(***************************************************************************)
(* What chat.completions.create gives at one attempt:                      *)
(*   valid           text whose JSON candidate is an object fitting the    *)
(*                   schema                                                *)
(*   bad_json        text whose JSON candidate json.loads rejects          *)
(*   schema_invalid  text whose candidate is an object that misses a       *)
(*                   required field (citation, reasoning)                  *)
(*   non_object      text whose candidate is JSON but not an object        *)
(*                   ("[1, 2]", "42")                                      *)
(*   empty           "" or whitespace only                                 *)
(*   missing         message.content is None                               *)
(*   transport       the call itself raises (network / API error)          *)
(***************************************************************************)
Response(kind, id) == [kind |-> kind, id |-> id]

NoResponse == Response("none", 0)

Responses ==
    {Response(k, id) : k \in {"valid", "bad_json", "schema_invalid"}, id \in 1..MaxVariants}
        \cup {Response(k, 1) : k \in {"non_object", "empty", "missing", "transport"}}

Exc(type, resp, attempt) == [type |-> type, resp |-> resp, attempt |-> attempt]

NoError == Exc("None", NoResponse, 0)

\* messages of the conversation
SystemMessage == [role |-> "system", resp |-> NoResponse, err |-> NoError]
PromptMessage == [role |-> "user", resp |-> NoResponse, err |-> NoError]
AssistantMessage(resp) == [role |-> "assistant", resp |-> resp, err |-> NoError]
ErrorMessage(e) == [role |-> "user", resp |-> NoResponse, err |-> e]

\* a key a candidate dict does not carry, where the value would be an int
AbsentInt == -2

\* the candidates generate_plan was given; the second lacks duration_min
\* and holds None for its level
available_resources ==
    <<[resource_id |-> "r1", title |-> "Python Basics", url |-> "u1",
       duration_min |-> 30, level |-> 0, skills |-> <<"python">>],
      [resource_id |-> "r2", title |-> "Testing", url |-> "u2",
       duration_min |-> AbsentInt, level |-> NoneInt, skills |-> <<>>]>>

\* a resource reference of a validated plan (LLMResource.model_dump())
Reference(resource_id, order) ==
    [resource_id |-> resource_id, why_included |-> "w", order |-> order]

\* model_dump() of the plan a valid response of text `id` holds: references
\* to candidates and to an id that is no candidate, in one milestone or in two
PlanData(id) ==
    [reasoning |-> id,
     milestones |->
        IF id = 1
        THEN <<[order |-> 1, title |-> "m1",
                resources |-> <<Reference("r1", 1), Reference("r9", 2)>>]>>
        ELSE <<[order |-> 1, title |-> "m1",
                resources |-> <<Reference("r9", 1), Reference("r2", 2)>>],
               [order |-> 2, title |-> "m2",
                resources |-> <<Reference("r1", 1)>>]>>]

\* the questions a valid response of text `id` holds
QuizData(id) ==
    <<[question_text |-> id, correct_option |-> "A", source_resource_id |-> "r1",
       citation |-> "quoted"]>>

Ok(data) == [ok |-> TRUE, exc |-> "None", data |-> data]
Raises(type) == [ok |-> FALSE, exc |-> type, data |-> 0]

\* planner _parse_and_validate_response: re.search on None raises TypeError;
\* json.loads rejects "" and unparseable text (JSONDecodeError);
\* LLMPlanResponse(**data) raises TypeError when data is no mapping and
\* ValidationError when a field is missing.
ParsePlan(resp) ==
    CASE resp.kind = "missing" -> Raises("TypeError")
      [] resp.kind = "empty" -> Raises("JSONDecodeError")
      [] resp.kind = "bad_json" -> Raises("JSONDecodeError")
      [] resp.kind = "non_object" -> Raises("TypeError")
      [] resp.kind = "schema_invalid" -> Raises("ValidationError")
      [] OTHER -> Ok(resp.id)

\* quiz _parse_and_validate_response: an empty or None text raises
\* ValueError("Empty response from LLM") before any parsing.
ParseQuiz(resp) ==
    CASE resp.kind \in {"missing", "empty"} -> Raises("ValueError")
      [] resp.kind = "bad_json" -> Raises("JSONDecodeError")
      [] resp.kind = "non_object" -> Raises("TypeError")
      [] resp.kind = "schema_invalid" -> Raises("ValidationError")
      [] OTHER -> Ok(resp.id)

Parse(c, resp) == IF c = "plan" THEN ParsePlan(resp) ELSE ParseQuiz(resp)

\* _enrich_plan_data: resource.update({title, url, duration_min, level,
\* skills}) for every reference whose resource_id is among the candidates;
\* full_resource.get('duration_min', 0) is 0 for a candidate without the key
EnrichResource_PadUnknown(ref) ==
    LET known == {i \in DOMAIN available_resources :
                     available_resources[i].resource_id = ref.resource_id}
        full == available_resources[CHOOSE i \in known : TRUE]
    IN  [resource_id |-> ref.resource_id, why_included |-> ref.why_included,
         order |-> ref.order,
         title |-> IF known = {} THEN NoneStr ELSE full.title,
         url |-> IF known = {} THEN NoneStr ELSE full.url,
         duration_min |-> IF known = {} \/ full.duration_min = AbsentInt
                          THEN 0 ELSE full.duration_min,
         level |-> IF known = {} THEN NoneInt ELSE full.level,
         skills |-> IF known = {} THEN <<>> ELSE full.skills]

EnrichResource(ref) ==
    IF \E i \in DOMAIN available_resources :
           available_resources[i].resource_id = ref.resource_id
    THEN LET full == available_resources[
                 CHOOSE i \in DOMAIN available_resources :
                     available_resources[i].resource_id = ref.resource_id]
         IN  [resource_id |-> ref.resource_id, why_included |-> ref.why_included,
              order |-> ref.order, title |-> full.title, url |-> full.url,
              duration_min |-> IF full.duration_min = AbsentInt
                               THEN 0 ELSE full.duration_min,
              level |-> full.level,
              skills |-> full.skills]
    ELSE ref

EnrichMilestone(m) ==
    [m EXCEPT !.resources = [i \in DOMAIN m.resources |-> EnrichResource(m.resources[i])]]

EnrichPlanData(plan) ==
    [plan EXCEPT !.milestones =
        [i \in DOMAIN plan.milestones |-> EnrichMilestone(plan.milestones[i])]]

\* what the call returns for a validated response
ReturnValue(c, id) ==
    IF c = "plan"
    THEN [kind |-> "plan", plan |-> EnrichPlanData(PlanData(id)), questions |-> <<>>]
    ELSE [kind |-> "quiz", plan |-> 0, questions |-> QuizData(id)]

NoValue == [kind |-> "none", plan |-> 0, questions |-> <<>>]

\* except (json.JSONDecodeError, ValidationError)
Retryable_JsonOnly(type) == type = "JSONDecodeError"

Retryable(type) == type \in {"JSONDecodeError", "ValidationError"}

\* for attempt in range(max_retries)
LoopContinues_OneMore(attempt) == attempt <= max_retries

LoopContinues(attempt) == attempt < max_retries

\* last_error = e
RecordError_KeepFirst(st, e) == IF st.last_error = NoError THEN e ELSE st.last_error

RecordError(st, e) == e

\* messages.append(assistant: the response text); messages.append(user:
\* the error message)
AppendFeedback_ErrorOnly(messages, resp, e) == messages \o <<ErrorMessage(e)>>

AppendFeedback(messages, resp, e) ==
    messages \o <<AssistantMessage(resp), ErrorMessage(e)>>

\* the state of one call before its first attempt; seen holds the outcomes of
\* the model calls made so far, sent the messages argument of each of them
NewCall ==
    [pc |-> "loop", attempt |-> 0, calls |-> 0,
     messages |-> <<SystemMessage, PromptMessage>>,
     last_error |-> NoError, raised |-> NoError, result |-> NoValue,
     seen |-> <<>>, sent |-> <<>>]

NotCalled == [NewCall EXCEPT !.pc = "ready", !.messages = <<>>]

\* after the loop: raise last_error; without one generate_plan raises
\* Exception("Failed to generate plan") and generate_quiz returns []
AfterLoop(c, st) ==
    IF st.last_error # NoError
    THEN [st EXCEPT !.pc = "raised", !.raised = st.last_error]
    ELSE IF c = "plan"
    THEN [st EXCEPT !.pc = "raised", !.raised = Exc("Exception", NoResponse, st.attempt)]
    ELSE [st EXCEPT !.pc = "returned", !.result = [NoValue EXCEPT !.kind = "quiz"]]

\* except Exception: raise
Propagate_AsLastError(st, e) ==
    [st EXCEPT !.pc = "raised",
               !.raised = IF st.last_error # NoError THEN st.last_error ELSE e]

Propagate(st, e) == [st EXCEPT !.pc = "raised", !.raised = e]

\* One pass of the loop body for the outcome `resp` of the model call, and
\* what follows the loop when this pass was its last.
Attempt(c, st, resp) ==
    LET called == [st EXCEPT !.calls = @ + 1, !.seen = Append(@, resp),
                             !.sent = Append(@, st.messages)]
    IN  IF resp.kind = "transport"
        THEN Propagate(called, Exc("APIError", resp, st.attempt))
        ELSE LET out == Parse(c, resp)
                 e == Exc(out.exc, resp, st.attempt)
             IN  IF out.ok
                 THEN [called EXCEPT !.pc = "returned", !.result = ReturnValue(c, out.data)]
                 ELSE IF Retryable(out.exc)
                 THEN LET failed ==
                              [called EXCEPT
                                  !.last_error = RecordError(st, e),
                                  !.messages = AppendFeedback(@, resp, e),
                                  !.attempt = @ + 1]
                      IN  IF LoopContinues(failed.attempt) THEN failed ELSE AfterLoop(c, failed)
                 ELSE Propagate(called, e)

RetryIdle == llm = [c \in Clients |-> NotCalled]

\* generate_plan / generate_quiz are called: the prompt is built
Generate ==
    /\ \A c \in Clients : llm[c].pc = "ready"
    /\ llm' = [c \in Clients |-> NewCall]

\* the backend answers the pending model call of every running client
ModelResponds ==
    /\ \E c \in Clients : llm[c].pc = "loop"
    /\ \E resp \in Responses :
          llm' = [c \in Clients |->
                     IF llm[c].pc = "loop" THEN Attempt(c, llm[c], resp) ELSE llm[c]]

(***************************************************************************)
(* SpecRerank: RerankService.rerank, called directly (as the /rerank       *)
(* endpoint does) or by the /search endpoint on the list search returned.  *)
(***************************************************************************)
MaxDocs == 3
MaxTopN == 3
MaxScore == 2

\* a text is a sequence of parts
TitleText(i) == [part |-> "title", of |-> i]
SpaceText == [part |-> " ", of |-> 0]
DescriptionText(i) == [part |-> "description", of |-> i]

\* what the "description" key of the i-th document holds: a text, nothing
\* (the key is absent), the empty string, or None
DescriptionOf(i) ==
    CASE i % 4 = 1 -> "text"
      [] i % 4 = 2 -> Missing
      [] i % 4 = 3 -> ""
      [] OTHER -> NoneStr

\* similarity scores are kept apart from the relevance scores 0..MaxScore
SimOf(i) == 100 - i

Document(i, description) ==
    [resource_id |-> i, title |-> i, description |-> description, score |-> SimOf(i)]

\* a document list handed to rerank directly
Documents(n) == [i \in 1..n |-> Document(i, DescriptionOf(i))]

\* the list search returned: its result dicts have no "description" key
SearchResults(n) ==
    [i \in 1..n |-> [Document(i, DescriptionOf(i)) EXCEPT !.description = Missing]]

\* doc_text = doc.get("title", ""); if doc.get("description"): += " " + it
DocText(doc) ==
    IF TruthyStr(doc.description)
    THEN <<TitleText(doc.title), SpaceText, DescriptionText(doc.resource_id)>>
    ELSE <<TitleText(doc.title)>>

DocTexts(documents) == [i \in DOMAIN documents |-> DocText(documents[i])]

\* What the scoring backend gives for n texts.  The local CrossEncoder
\* predicts one score per pair; the remote reply carries any number of scores
\* or no "scores" field at all; either backend may raise.
RemoteLengths(n) == {m \in (n - 1)..(n + 1) : m >= 0}

ScoreReplies(lengths) ==
    UNION {[1..m -> 0..MaxScore] : m \in lengths}

ProviderReplies(use_deepinfra, n) ==
    {[kind |-> "scores", scores |-> sc] :
        sc \in ScoreReplies(IF use_deepinfra THEN RemoteLengths(n) ELSE {n})}
      \cup {[kind |-> "error", scores |-> <<>>]}
      \cup (IF use_deepinfra THEN {[kind |-> "no_scores", scores |-> <<>>]} ELSE {})

\* rerank_sync: the scores of the reply, [0.0] * len(documents) without them
Scores(reply, n) ==
    IF reply.kind = "no_scores" THEN [i \in 1..n |-> 0] ELSE reply.scores

\* list(zip(documents, scores)): as long as the shorter of the two
Zip(documents, scores) ==
    [i \in 1..Min(Len(documents), Len(scores)) |->
        [doc |-> documents[i], score |-> scores[i]]]

\* list.sort(key=score, reverse=True) is stable: a pair goes behind every
\* pair whose score is at least its own
InsertByScore_BeforeTies(sorted, x) ==
    LET k == Cardinality({i \in DOMAIN sorted : sorted[i].score > x.score})
    IN  SubSeq(sorted, 1, k) \o <<x>> \o SubSeq(sorted, k + 1, Len(sorted))

InsertByScore_Ascending(sorted, x) ==
    LET k == Cardinality({i \in DOMAIN sorted : sorted[i].score <= x.score})
    IN  SubSeq(sorted, 1, k) \o <<x>> \o SubSeq(sorted, k + 1, Len(sorted))

InsertByScore(sorted, x) ==
    LET k == Cardinality({i \in DOMAIN sorted : sorted[i].score >= x.score})
    IN  SubSeq(sorted, 1, k) \o <<x>> \o SubSeq(sorted, k + 1, Len(sorted))

RECURSIVE SortByScore(_)
SortByScore(scored_docs) ==
    IF scored_docs = <<>>
    THEN <<>>
    ELSE InsertByScore(SortByScore(SubSeq(scored_docs, 1, Len(scored_docs) - 1)),
                       scored_docs[Len(scored_docs)])

\* scored_docs[:top_n] for a top_n that is not negative
TopN_Everything(scored_docs, top_n) == scored_docs

TopN(scored_docs, top_n) == SubSeq(scored_docs, 1, Min(top_n, Len(scored_docs)))

\* for i, result in enumerate(reranked_results): result["score"] = scores[i]
UpdateScores_KeepSimilarity(reranked_results, scores) == reranked_results

UpdateScores(reranked_results, scores) ==
    [i \in DOMAIN reranked_results |->
        [reranked_results[i] EXCEPT !.score = scores[i]]]

NoRerank ==
    [pc |-> "idle", caller |-> "none", use_deepinfra |-> FALSE,
     documents |-> <<>>, top_n |-> 0, doc_texts |-> <<>>, provider_calls |-> 0,
     scores |-> <<>>, top_docs |-> <<>>, top_scores |-> <<>>,
     results |-> <<>>, reranked |-> FALSE, reply |-> "none"]

RerankIdle == rr = NoRerank

\* rerank up to the scoring call: ([], []) for no documents, else the texts
RerankEnter(caller, use_deepinfra, documents, top_n) ==
    LET call == [NoRerank EXCEPT !.caller = caller, !.use_deepinfra = use_deepinfra,
                                 !.documents = documents, !.top_n = top_n]
    IN  IF documents = <<>>
        THEN [call EXCEPT !.pc = "returned"]
        ELSE [call EXCEPT !.pc = "scoring", !.doc_texts = DocTexts(documents)]

\* rerank from the scores on: zip, sort, cut, split
RerankFinish(st, scores) ==
    LET scored_docs == TopN(SortByScore(Zip(st.documents, scores)), st.top_n)
    IN  [st EXCEPT !.pc = "returned",
                   !.scores = scores,
                   !.top_docs = [i \in DOMAIN scored_docs |-> scored_docs[i].doc],
                   !.top_scores = [i \in DOMAIN scored_docs |-> scored_docs[i].score]]

\* RerankService.rerank(query, documents, top_n) is called
Rerank ==
    /\ rr.pc = "idle"
    /\ \E n \in 0..MaxDocs, top_n \in 0..MaxTopN, use_deepinfra \in BOOLEAN :
          rr' = RerankEnter("rerank", use_deepinfra, Documents(n), top_n)

\* POST /search after search returned n results: rerank them when asked to
\* and there are any, with top_n = min(rerank_top_n, len(results))
SearchEndpoint ==
    /\ rr.pc = "idle"
    /\ \E n \in 0..MaxDocs, rerank \in BOOLEAN, rerank_top_n \in 1..MaxTopN,
          use_deepinfra \in BOOLEAN :
          IF rerank /\ n > 0
          THEN rr' = RerankEnter("/search", use_deepinfra, SearchResults(n),
                                 Min(rerank_top_n, n))
          ELSE rr' = [NoRerank EXCEPT !.pc = "returned", !.caller = "/search",
                                      !.documents = SearchResults(n),
                                      !.results = SearchResults(n)]

\* the scoring backend answers; rerank finishes, and /search overwrites the
\* score of every result it got back
ProviderResponds ==
    /\ rr.pc = "scoring"
    /\ \E reply \in ProviderReplies(rr.use_deepinfra, Len(rr.documents)) :
          LET called == [rr EXCEPT !.provider_calls = @ + 1, !.reply = reply.kind]
          IN  IF reply.kind = "error"
              THEN rr' = [called EXCEPT !.pc = "raised"]
              ELSE LET done == RerankFinish(called, Scores(reply, Len(rr.documents)))
                   IN  IF rr.caller = "/search"
                       THEN rr' = [done EXCEPT
                                      !.results = UpdateScores(done.top_docs, done.top_scores),
                                      !.reranked = TRUE]
                       ELSE rr' = done

(***************************************************************************)
(* SpecApi: the planner and quiz services: their database client           *)
(* singleton (get_db_client), startup, /health, and the endpoints that     *)
(* read or write plans and quizzes.  Stored plans have the ids 1..plans,   *)
(* stored quizzes the ids 1..quizzes.                                      *)
(***************************************************************************)
MaxPlans == 2
MaxQuizzes == 2
MaxAttempts == 1

Services == {"planner", "quiz"}

\* get_db_client(): _db_client is bound to the new DatabaseClient before
\* connect() runs, so a failed connect leaves a client without connection
\* behind and raises; a client that exists is returned as it is
get_db_client(db_client, db_up) ==
    IF db_client = "none"
    THEN IF db_up
         THEN [client |-> "connected", raised |-> FALSE]
         ELSE [client |-> "unconnected", raised |-> TRUE]
    ELSE [client |-> db_client, raised |-> FALSE]

\* DatabaseClient.health_check: connect when there is no connection
health_check(db_client, db_up) ==
    IF db_client = "unconnected" /\ db_up THEN "connected" ELSE db_client

\* endpoints whose handler has `except HTTPException: raise` before
\* `except Exception`
ReRaisesHTTPException == {"get_plan", "generate_quiz", "submit_quiz"}

\* the status the client gets for an exception raised inside the handler
StatusFor(endpoint, exc) ==
    CASE exc = "HTTPException404" ->
             IF endpoint \in ReRaisesHTTPException THEN 404 ELSE 500
      [] exc = "HTTPException400" ->
             IF endpoint \in ReRaisesHTTPException THEN 400 ELSE 500
      [] exc = "httpx.HTTPError" ->
             IF endpoint = "generate_plan" THEN 503 ELSE 500
      [] OTHER -> 500

NoRequest ==
    [service |-> "none", endpoint |-> "none", id |-> 0, status |-> 0,
     search |-> "none", absent |-> FALSE, lookups |-> 0, llm_called |-> FALSE,
     wrote |-> FALSE, handed |-> "none", db_up |-> FALSE, db_failure |-> FALSE]

NoApi ==
    [db_up |-> FALSE,
     client |-> [s \in Services |-> "none"],
     serving |-> [s \in Services |-> FALSE],
     plans |-> 0, quizzes |-> 0, attempts |-> 0,
     last |-> NoRequest]

ApiIdle == api = NoApi

\* a request to `endpoint` of service s starts with get_db_client()
Request(s, endpoint, id) ==
    LET g == get_db_client(api.client[s], api.db_up)
    IN  [NoRequest EXCEPT !.service = s, !.endpoint = endpoint, !.id = id,
                          !.db_up = api.db_up,
                          !.handed = IF g.raised THEN "none" ELSE g.client,
                          !.db_failure = g.raised,
                          !.status = IF g.raised THEN 500 ELSE 0]

ClientAfter(s) == get_db_client(api.client[s], api.db_up).client

\* the request answered: the singleton as get_db_client left it
Answer(s, req) ==
    [api EXCEPT !.client[s] = ClientAfter(s), !.last = req]

\* the database is down when the services are deployed and may come up
DatabaseComesUp ==
    /\ ~api.db_up
    /\ api' = [api EXCEPT !.db_up = TRUE]

\* lifespan: get_db_client() inside try / except Exception: log and go on
Startup ==
    \E s \in Services :
        /\ ~api.serving[s]
        /\ api' = [api EXCEPT !.client[s] = ClientAfter(s), !.serving[s] = TRUE]

\* GET /health: get_db_client() outside any try, then health_check()
Health ==
    \E s \in Services :
        /\ api.serving[s]
        /\ LET req == Request(s, "health", 0)
           IN  IF req.db_failure
               THEN api' = Answer(s, req)
               ELSE api' = [api EXCEPT
                               !.client[s] = health_check(ClientAfter(s), api.db_up),
                               !.last = [req EXCEPT !.status = 200]]

\* connection use by a method that rolls back in its except clause: on a
\* client without connection self.conn.cursor() and then self.conn.rollback()
\* raise AttributeError
DbRaises(req) == req.handed = "unconnected"

\* POST /plan
PostPlan ==
    /\ api.serving["planner"]
    /\ \E search \in {"empty", "found", "error"}, llmOk \in BOOLEAN :
          LET req == [Request("planner", "generate_plan", 0) EXCEPT !.search = search]
              fail(exc) == [req EXCEPT !.status = StatusFor("generate_plan", exc)]
          IN  IF req.db_failure
              THEN api' = Answer("planner", [req EXCEPT !.search = "none"])
              ELSE IF search = "error"
              THEN api' = Answer("planner", fail("httpx.HTTPError"))
              ELSE IF search = "empty"
              THEN api' = Answer("planner", fail("HTTPException404"))
              ELSE IF ~llmOk
              THEN api' = Answer("planner", [fail("Exception") EXCEPT !.llm_called = TRUE])
              ELSE IF DbRaises(req)
              THEN api' = Answer("planner", [fail("Exception") EXCEPT
                                                !.llm_called = TRUE, !.db_failure = TRUE])
              ELSE /\ api.plans < MaxPlans
                   /\ api' = [Answer("planner", [req EXCEPT !.status = 200,
                                                            !.llm_called = TRUE,
                                                            !.wrote = TRUE])
                                 EXCEPT !.plans = @ + 1]

\* GET /plan/{plan_id} and POST /replan: db_client.get_plan(plan_id), 404
\* when there is no such plan
PlanLookup(endpoint) ==
    /\ api.serving["planner"]
    /\ \E id \in 1..(MaxPlans + 1) :
          LET req == Request("planner", endpoint, id)
              looked == [req EXCEPT !.lookups = 1, !.absent = id > api.plans]
          IN  IF req.db_failure
              THEN api' = Answer("planner", req)
              ELSE IF DbRaises(req)
              THEN api' = Answer("planner", [looked EXCEPT
                                               !.status = StatusFor(endpoint, "Exception"),
                                               !.db_failure = TRUE])
              ELSE IF id > api.plans
              THEN api' = Answer("planner", [looked EXCEPT
                                               !.status = StatusFor(endpoint, "HTTPException404")])
              ELSE api' = Answer("planner", [looked EXCEPT !.status = 200])

GetPlan == PlanLookup("get_plan")

Replan == PlanLookup("replan")

\* POST /generate of the quiz service
GenerateQuiz ==
    /\ api.serving["quiz"]
    /\ \E found \in BOOLEAN, content \in BOOLEAN,
          quiz_questions \in {"questions", "none", "raises"} :
          LET req == Request("quiz", "generate_quiz", 0)
              fail(exc) == [req EXCEPT !.status = StatusFor("generate_quiz", exc)]
          IN  IF req.db_failure
              THEN api' = Answer("quiz", req)
              ELSE IF DbRaises(req) \/ ~found
              THEN api' = Answer("quiz", fail("HTTPException404"))
              ELSE IF ~content
              THEN api' = Answer("quiz", fail("HTTPException400"))
              ELSE IF quiz_questions # "questions"
              THEN api' = Answer("quiz", [fail("Exception") EXCEPT !.llm_called = TRUE])
              ELSE /\ api.quizzes < MaxQuizzes
                   /\ api' = [Answer("quiz", [req EXCEPT !.status = 200,
                                                         !.llm_called = TRUE,
                                                         !.wrote = TRUE])
                                 EXCEPT !.quizzes = @ + 1]

\* POST /submit of the quiz service: get_quiz returns None for an unknown id
\* and for a failed query alike
SubmitQuiz ==
    /\ api.serving["quiz"]
    /\ \E id \in 1..(MaxQuizzes + 1) :
          LET req == Request("quiz", "submit_quiz", id)
              looked == [req EXCEPT !.lookups = 1, !.absent = id > api.quizzes]
          IN  IF req.db_failure
              THEN api' = Answer("quiz", req)
              ELSE IF DbRaises(req) \/ id > api.quizzes
              THEN api' = Answer("quiz", [looked EXCEPT
                                            !.status = StatusFor("submit_quiz", "HTTPException404")])
              ELSE /\ api.attempts < MaxAttempts
                   /\ api' = [Answer("quiz", [looked EXCEPT !.status = 200, !.wrote = TRUE])
                                 EXCEPT !.attempts = @ + 1]

(***************************************************************************)
(* SpecIngest: the resource table (unique on url) and the index points     *)
(* that the ingestion endpoint and the ingestion script write.  Ids are    *)
(* the uuid4 values in the order they are first used; `data` stands for    *)
(* the columns both paths write (title, provider, license, duration_min,   *)
(* level, skills, media_type).                                             *)
(***************************************************************************)
MaxData == 2
MaxIds == 3

Urls == {"https://a", "https://b"}

Data == 1..MaxData

NoRecord == [id |-> 0, data |-> 0]

NoStore ==
    [records |-> [u \in Urls |-> NoRecord],
     points |-> {},
     next_id |-> 1]

StoreIdle == store = NoStore

\* INSERT ... ON CONFLICT (url) DO UPDATE ... RETURNING id: the id of the
\* row that has the url, which is the fresh uuid only when there was none
ReturningId(records, url, resource_id) ==
    IF records[url] = NoRecord THEN resource_id ELSE records[url].id

\* the row after the statement
UpsertRow(records, url, resource_id, data) ==
    [records EXCEPT ![url] = [id |-> ReturningId(records, url, resource_id),
                              data |-> data]]

\* client.upsert of one point: a point with the same id is replaced
UpsertPoint(points, id, url, data) ==
    {p \in points : p.id # id} \cup {[id |-> id, url |-> url, data |-> data]}

\* a fresh uuid4 is used up when it becomes the id of a row or of a point
NextId(records, url, wrote) ==
    IF records[url] = NoRecord /\ wrote THEN store.next_id + 1 ELSE store.next_id

\* POST /ingest with one resource: the row is written inside the open
\* transaction, the point is upserted when generate_embeddings is set and
\* embedding succeeds (a failure is logged and swallowed), and the
\* transaction is committed last; a failed commit rolls the row back
IngestResources ==
    \E url \in Urls, data \in Data, generate_embeddings \in BOOLEAN,
       embedOk \in BOOLEAN, commitOk \in BOOLEAN :
        LET id == ReturningId(store.records, url, store.next_id)
            indexed == generate_embeddings /\ embedOk
        IN  /\ id <= MaxIds
            /\ store' =
                 [records |-> IF commitOk
                              THEN UpsertRow(store.records, url, store.next_id, data)
                              ELSE store.records,
                  points |-> IF indexed
                             THEN UpsertPoint(store.points, id, url, data)
                             ELSE store.points,
                  next_id |-> NextId(store.records, url, commitOk \/ indexed)]

\* ingest.py, one resource of the loop: insert_resource commits the row,
\* then the embedding is generated and the point upserted; an exception
\* after the commit only skips the rest of the resource
IngestScriptResource ==
    \E url \in Urls, data \in Data, embedOk \in BOOLEAN :
        LET id == ReturningId(store.records, url, store.next_id)
        IN  /\ id <= MaxIds
            /\ store' =
                 [records |-> UpsertRow(store.records, url, store.next_id, data),
                  points |-> IF embedOk
                             THEN UpsertPoint(store.points, id, url, data)
                             ELSE store.points,
                  next_id |-> NextId(store.records, url, TRUE)]

(***************************************************************************)
(* SpecLazy: the module-level singletons of the RAG service.  Every        *)
(* accessor is `if _x is None: _x = X()` followed by `return _x`, with no  *)
(* lock; a caller is one thread of control inside one accessor, and the    *)
(* callers interleave between the statements.  Instance k of an accessor   *)
(* is the k-th object constructed for it, 0 is None.                       *)
(***************************************************************************)
MaxCallers == 2

Callers == 1..MaxCallers

Accessors ==
    {"get_search_service", "get_embedding_service", "get_rerank_service",
     "get_deepinfra_client", "SearchService.connect"}

\* `if True`: construct whatever the global holds
NeedsInit_Always(instance) == instance = instance

\* `if _x is None`
NeedsInit(instance) == instance = 0

\* DeepInfraClient.__init__ raises ValueError("DEEPINFRA_API_KEY is required
\* when USE_DEEPINFRA=true") without a key; EmbeddingService.__init__,
\* RerankService.__init__, SearchService.__init__ and QdrantClient(...) read
\* no credential
ConstructorRaises(accessor, api_key) ==
    accessor = "get_deepinfra_client" /\ ~api_key

\* the services reach get_deepinfra_client() only from _generate_via_api /
\* _rerank_via_api, which run when use_deepinfra is set
Reachable(accessor, use_deepinfra) ==
    accessor = "get_deepinfra_client" => use_deepinfra

NoCaller == [pc |-> "idle", accessor |-> "none", saw |-> 0, made |-> FALSE, got |-> 0]

NoLazy(use_deepinfra, api_key) ==
    [use_deepinfra |-> use_deepinfra,
     api_key |-> api_key,
     instance |-> [a \in Accessors |-> 0],
     built |-> [a \in Accessors |-> 0],
     caller |-> [c \in Callers |-> NoCaller]]

LazyIdle == lazy = NoLazy(TRUE, FALSE)

\* a caller enters an accessor
Call ==
    \E c \in Callers, a \in Accessors :
        /\ lazy.caller[c].pc = "idle"
        /\ Reachable(a, lazy.use_deepinfra)
        /\ lazy' = [lazy EXCEPT !.caller[c] = [NoCaller EXCEPT !.pc = "called",
                                                                !.accessor = a]]

\* `if _x is None:` reads the global
Check ==
    \E c \in Callers :
        /\ lazy.caller[c].pc = "called"
        /\ LET a == lazy.caller[c].accessor
           IN  lazy' = [lazy EXCEPT
                          !.caller[c].saw = lazy.instance[a],
                          !.caller[c].pc = IF NeedsInit(lazy.instance[a])
                                           THEN "constructing" ELSE "initialised"]

\* SearchService.__init__ calls get_embedding_service()
Nested(a) == IF a = "get_search_service" THEN {"get_embedding_service"} ELSE {}

\* `_x = X()`: the constructor runs and the global is bound to its result
Construct ==
    \E c \in Callers :
        /\ lazy.caller[c].pc = "constructing"
        /\ LET a == lazy.caller[c].accessor
               first == {n \in Nested(a) : NeedsInit(lazy.instance[n])}
           IN  IF ConstructorRaises(a, lazy.api_key)
               THEN lazy' = [lazy EXCEPT !.caller[c].pc = "raised"]
               ELSE lazy' = [lazy EXCEPT
                               !.built = [x \in Accessors |->
                                             IF x = a \/ x \in first
                                             THEN lazy.built[x] + 1 ELSE lazy.built[x]],
                               !.instance = [x \in Accessors |->
                                             IF x = a \/ x \in first
                                             THEN lazy.built[x] + 1 ELSE lazy.instance[x]],
                               !.caller[c].made = TRUE,
                               !.caller[c].pc = "initialised"]

\* `return _x` reads the global again
Return ==
    \E c \in Callers :
        /\ lazy.caller[c].pc = "initialised"
        /\ lazy' = [lazy EXCEPT
                      !.caller[c].got = lazy.instance[lazy.caller[c].accessor],
                      !.caller[c].pc = "returned"]

(***************************************************************************)
(* SpecExtract: the head of LLMClient._parse_and_validate_response, which  *)
(* picks the JSON text out of a model reply.  A reply is a sequence of     *)
(* tokens: the two braces, "fence_json" for the three backticks followed   *)
(* by json, "fence" for three bare backticks, one whitespace character and *)
(* one other character.                                                    *)
(***************************************************************************)
MaxTextLen == 4

Tokens == {"{", "}", "fence_json", "fence", " ", "x"}

RECURSIVE TextsOfLen(_)
TextsOfLen(n) ==
    IF n = 0 THEN {<<>>}
    ELSE {Append(t, k) : t \in TextsOfLen(n - 1), k \in Tokens}

Texts == UNION {TextsOfLen(n) : n \in 0..MaxTextLen}

\* the least and the greatest element of a non-empty set of positions
First(S) == CHOOSE i \in S : \A j \in S : i <= j
Last(S) == CHOOSE i \in S : \A j \in S : j <= i

\* \s* at either end of group(1): leading whitespace goes to the greedy \s*
\* after the opening fence, trailing whitespace to the \s* before the closing fence
RECURSIVE Strip(_)
Strip(s) ==
    IF s = <<>> THEN s
    ELSE IF Head(s) = " " THEN Strip(Tail(s))
    ELSE IF s[Len(s)] = " " THEN Strip(SubSeq(s, 1, Len(s) - 1))
    ELSE s

\* the closing fence of the pattern also matches the backticks of "fence_json"
ClosesFence(k) == k \in {"fence", "fence_json"}

\* re.search(r'```json\s*(.*?)\s*```', text, re.DOTALL): the leftmost
\* opening fence with a fence after it; the lazy group ends at the nearest one
FenceOpen(text) ==
    {i \in DOMAIN text : /\ text[i] = "fence_json"
                         /\ \E j \in DOMAIN text : j > i /\ ClosesFence(text[j])}

FencedGroup(text) ==
    LET i == First(FenceOpen(text))
        j == First({k \in DOMAIN text : k > i /\ ClosesFence(text[k])})
    IN  Strip(SubSeq(text, i + 1, j - 1))

\* re.search(r'\{.*\}', text, re.DOTALL): the leftmost "{" and, the star
\* being greedy, the last "}" of the text
BraceOpen(text) ==
    {i \in DOMAIN text : /\ text[i] = "{"
                         /\ \E j \in DOMAIN text : j > i /\ text[j] = "}"}

BraceGroup(text) ==
    LET i == First(BraceOpen(text))
        j == Last({k \in DOMAIN text : k > i /\ text[k] = "}"})
    IN  SubSeq(text, i, j)

\* json_text of _parse_and_validate_response, with the strategy that gave it
ExtractJson(text) ==
    IF FenceOpen(text) # {}
    THEN [strategy |-> "fence", json_text |-> FencedGroup(text)]
    ELSE IF BraceOpen(text) # {}
    THEN [strategy |-> "braces", json_text |-> BraceGroup(text)]
    ELSE [strategy |-> "whole", json_text |-> text]

NoExtract == [pc |-> "idle", text |-> <<>>, strategy |-> "none", json_text |-> <<>>]

ExtractIdle == ext = NoExtract

\* _parse_and_validate_response is called with the text of a reply
ReplyArrives ==
    /\ ext.pc = "idle"
    /\ \E text \in Texts :
          ext' = [NoExtract EXCEPT !.pc = "reply", !.text = text]

\* _parse_and_validate_response up to json.loads
Extract ==
    /\ ext.pc = "reply"
    /\ ext' = [ext EXCEPT !.pc = "extracted",
                          !.strategy = ExtractJson(ext.text).strategy,
                          !.json_text = ExtractJson(ext.text).json_text]

ServicesIdle == ApiIdle /\ StoreIdle /\ LazyIdle /\ ExtractIdle

(***************************************************************************)
(* SpecEmbed: EmbeddingService.generate_embeddings and the code that hands *)
(* texts to an embedding backend: POST /embed, SearchService.search, POST  *)
(* /ingest/resources and the ingest.py script.                             *)
(***************************************************************************)
MaxTexts == 2
MaxTitles == 2

QueryPrefix == [part |-> "query: ", of |-> 0]
PassagePrefix == [part |-> "passage: ", of |-> 0]
QueryText(i) == [part |-> "query", of |-> i]

Instructions == {"query", "passage", "document"}

\* texts a caller of /embed may send, and the texts of a search query
RequestTexts ==
    {<<TitleText(i)>> : i \in 1..MaxTitles} \cup {<<QueryText(i)>> : i \in 1..MaxTitles}

TextLists == UNION {[1..m -> RequestTexts] : m \in 0..MaxTexts}

\* prefix = "query: " if instruction == "query" else "passage: "
Prefix(instruction) == IF instruction = "query" THEN QueryPrefix ELSE PassagePrefix

\* prefixed_texts = [f"{prefix}{text}" for text in texts]
PrefixedTexts(texts, instruction) ==
    [i \in DOMAIN texts |-> <<Prefix(instruction)>> \o texts[i]]

\* text = title; if description: text += " " + description
ResourceText(title, description) ==
    IF TruthyStr(description)
    THEN <<TitleText(title), SpaceText, DescriptionText(title)>>
    ELSE <<TitleText(title)>>

NoEmbed ==
    [site |-> "none", instruction |-> "", use_deepinfra |-> FALSE,
     texts |-> <<>>, handed |-> <<>>]

EmbedIdle == emb = NoEmbed

\* EmbeddingService.generate_embeddings(texts, instruction) called from `site`
GenerateEmbeddings(site, texts, instruction, use_deepinfra) ==
    [site |-> site, instruction |-> instruction, use_deepinfra |-> use_deepinfra,
     texts |-> texts, handed |-> PrefixedTexts(texts, instruction)]

\* POST /embed: generate_embeddings(request.texts, request.instruction)
EmbedEndpoint ==
    /\ emb.site = "none"
    /\ \E texts \in TextLists, instruction \in Instructions, use_deepinfra \in BOOLEAN :
          emb' = GenerateEmbeddings("/embed", texts, instruction, use_deepinfra)

\* search: generate_single_embedding(query, instruction="query")
SearchEmbedsQuery ==
    /\ emb.site = "none"
    /\ \E q \in 1..MaxTitles, use_deepinfra \in BOOLEAN :
          emb' = GenerateEmbeddings("search", <<(<<QueryText(q)>>)>>, "query", use_deepinfra)

\* POST /ingest/resources: generate_embeddings([f"passage: {text}"])
IngestEndpointEmbeds ==
    /\ emb.site = "none"
    /\ \E title \in 1..MaxTitles, description \in {NoneStr, "", "text"},
          use_deepinfra \in BOOLEAN :
          emb' = [GenerateEmbeddings("/ingest/resources",
                                     <<(<<PassagePrefix>> \o ResourceText(title, description))>>,
                                     "passage", use_deepinfra)
                     EXCEPT !.texts = <<ResourceText(title, description)>>]

\* ingest.py generate_embedding: model.encode(f"passage: {text}")
IngestScriptEmbeds ==
    /\ emb.site = "none"
    /\ \E title \in 1..MaxTitles, description \in {NoneStr, Missing, "", "text"} :
          emb' = [site |-> "ingest.py", instruction |-> "passage",
                  use_deepinfra |-> FALSE,
                  texts |-> <<ResourceText(title, description)>>,
                  handed |-> <<(<<PassagePrefix>> \o ResourceText(title, description))>>]

InitEmbed == SearchIdle /\ FilterIdle /\ RetryIdle /\ RerankIdle /\ EmbedIdle /\ ServicesIdle

NextEmbed ==
    \/ EmbedEndpoint /\ UNCHANGED <<searchVars, filterVars, llm, rr, serviceVars>>
    \/ SearchEmbedsQuery /\ UNCHANGED <<searchVars, filterVars, llm, rr, serviceVars>>
    \/ IngestEndpointEmbeds /\ UNCHANGED <<searchVars, filterVars, llm, rr, serviceVars>>
    \/ IngestScriptEmbeds /\ UNCHANGED <<searchVars, filterVars, llm, rr, serviceVars>>

SpecEmbed == InitEmbed /\ [][NextEmbed]_vars

InitRerank == SearchIdle /\ FilterIdle /\ RetryIdle /\ RerankIdle /\ EmbedIdle /\ ServicesIdle

NextRerank ==
    \/ Rerank /\ UNCHANGED <<searchVars, filterVars, llm, emb, serviceVars>>
    \/ SearchEndpoint /\ UNCHANGED <<searchVars, filterVars, llm, emb, serviceVars>>
    \/ ProviderResponds /\ UNCHANGED <<searchVars, filterVars, llm, emb, serviceVars>>

SpecRerank == InitRerank /\ [][NextRerank]_vars

PipelineIdle == SearchIdle /\ FilterIdle /\ RetryIdle /\ RerankIdle /\ EmbedIdle

InitApi == PipelineIdle /\ ServicesIdle

NextApi ==
    \/ DatabaseComesUp /\ UNCHANGED <<pipelineVars, store, lazy, ext>>
    \/ Startup /\ UNCHANGED <<pipelineVars, store, lazy, ext>>
    \/ Health /\ UNCHANGED <<pipelineVars, store, lazy, ext>>
    \/ PostPlan /\ UNCHANGED <<pipelineVars, store, lazy, ext>>
    \/ GetPlan /\ UNCHANGED <<pipelineVars, store, lazy, ext>>
    \/ Replan /\ UNCHANGED <<pipelineVars, store, lazy, ext>>
    \/ GenerateQuiz /\ UNCHANGED <<pipelineVars, store, lazy, ext>>
    \/ SubmitQuiz /\ UNCHANGED <<pipelineVars, store, lazy, ext>>

SpecApi == InitApi /\ [][NextApi]_vars

InitIngest == PipelineIdle /\ ServicesIdle

NextIngest ==
    \/ IngestResources /\ UNCHANGED <<pipelineVars, api, lazy, ext>>
    \/ IngestScriptResource /\ UNCHANGED <<pipelineVars, api, lazy, ext>>

SpecIngest == InitIngest /\ [][NextIngest]_vars

InitLazy ==
    /\ PipelineIdle /\ ApiIdle /\ StoreIdle /\ ExtractIdle
    /\ \E use_deepinfra \in BOOLEAN, api_key \in BOOLEAN :
          lazy = NoLazy(use_deepinfra, api_key)

NextLazy ==
    \/ Call /\ UNCHANGED <<pipelineVars, api, store, ext>>
    \/ Check /\ UNCHANGED <<pipelineVars, api, store, ext>>
    \/ Construct /\ UNCHANGED <<pipelineVars, api, store, ext>>
    \/ Return /\ UNCHANGED <<pipelineVars, api, store, ext>>

SpecLazy == InitLazy /\ [][NextLazy]_vars

InitExtract == PipelineIdle /\ ServicesIdle

NextExtract ==
    \/ ReplyArrives /\ UNCHANGED <<pipelineVars, api, store, lazy>>
    \/ Extract /\ UNCHANGED <<pipelineVars, api, store, lazy>>

SpecExtract == InitExtract /\ [][NextExtract]_vars

InitFilter == FilterInit /\ SearchIdle /\ RetryIdle /\ RerankIdle /\ EmbedIdle /\ ServicesIdle

NextFilter == BuildFilter /\ UNCHANGED <<searchVars, llm, rr, emb, serviceVars>>

InitRetry == SearchIdle /\ FilterIdle /\ RetryIdle /\ RerankIdle /\ EmbedIdle /\ ServicesIdle

NextRetry ==
    \/ Generate /\ UNCHANGED <<searchVars, filterVars, rr, emb, serviceVars>>
    \/ ModelResponds /\ UNCHANGED <<searchVars, filterVars, rr, emb, serviceVars>>

SpecRetry == InitRetry /\ [][NextRetry]_vars

SpecFilter == InitFilter /\ [][NextFilter]_vars

(***************************************************************************)
(* Spec: the collection, the ingestion paths that write it, and search.    *)
(***************************************************************************)
\* Resources offered to ingestion.  sim stands for the similarity of the
\* resource's passage vector to the query vector of the search request.
SeedResources ==
    {[level |-> 1, duration_min |-> 1, media_type |-> "video",
      provider |-> "coursera", sim |-> 2],
     [level |-> NoneInt, duration_min |-> NoneInt, media_type |-> NoneStr,
      provider |-> NoneStr, sim |-> 1]}

\* The payload both ingestion paths build: resource_id, title, url, provider,
\* license, duration_min, level, skills, media_type, description.  It has no
\* tenant_id key, whatever tenant_id the submitted resource carried.
IngestPayload(r, tenant) ==
    [tenant_id |-> NoneStr,
     level |-> r.level, duration_min |-> r.duration_min,
     media_type |-> r.media_type, provider |-> r.provider]

Point(payload, sim) == [payload |-> payload, sim |-> sim]

Upsert(idx, id, point) == (id :> point) @@ idx

\* POST /ingest/resources for one resource of the request.  The record is
\* keyed by url (ON CONFLICT (url) ... RETURNING id), and so is the point.  A
\* failed embedding or upsert is logged and swallowed.
IngestEndpointOne(url, r, tenant, generate_embeddings, ok) ==
    /\ IF generate_embeddings /\ ok
       THEN /\ index' = Upsert(index, url, Point(IngestPayload(r, tenant), r.sim))
            /\ client' = TRUE
       ELSE UNCHANGED <<index, client>>
    /\ UNCHANGED <<status, filters, top_k, qdrant_filter, results, search_calls>>

IngestEndpoint ==
    /\ status = "idle"
    /\ \E url \in PointIds, r \in SeedResources, tenant \in FilterTenants,
          gen \in BOOLEAN, ok \in BOOLEAN :
          IngestEndpointOne(url, r, tenant, gen, ok)

\* ingest.py: insert_resource, generate_embedding, upsert_to_qdrant with the
\* script's own Qdrant client; a failure skips the resource.
IngestScriptOne(url, r, tenant, ok) ==
    /\ IF ok
       THEN index' = Upsert(index, url, Point(IngestPayload(r, tenant), r.sim))
       ELSE UNCHANGED index
    /\ UNCHANGED <<client, status, filters, top_k, qdrant_filter, results, search_calls>>

IngestScript ==
    /\ status = "idle"
    /\ \E url \in PointIds, r \in SeedResources, tenant \in FilterTenants,
          ok \in BOOLEAN :
          IngestScriptOne(url, r, tenant, ok)

\* SearchService.upsert_resource: the caller's payload is stored as given.
UpsertResource ==
    /\ status = "idle"
    /\ \E id \in PointIds, r \in SeedResources, tenant_id \in PayloadTenants :
          index' = Upsert(index, id,
                          Point([tenant_id |-> tenant_id, level |-> r.level,
                                 duration_min |-> r.duration_min,
                                 media_type |-> r.media_type,
                                 provider |-> r.provider], r.sim))
    /\ client' = TRUE
    /\ UNCHANGED <<status, filters, top_k, qdrant_filter, results, search_calls>>

\* client.search(query_vector, query_filter, limit): the limit most similar
\* points that satisfy the predicate, most similar first; the order among
\* equally similar points is the index's choice.
MatchingIds(idx, pred) == {id \in DOMAIN idx : Matches(pred, idx[id].payload)}

QdrantSearch(idx, pred, limit) ==
    LET M == MatchingIds(idx, pred)
        n == Min(limit, Cardinality(M))
    IN  {h \in [1..n -> M] :
            /\ \A i, j \in 1..n : i < j => h[i] # h[j] /\ idx[h[i]].sim >= idx[h[j]].sim
            /\ \A id \in M : (\A i \in 1..n : h[i] # id) =>
                  \A i \in 1..n : idx[h[i]].sim >= idx[id].sim}

\* the result dict search builds for one hit
FormatHit_Renormalised(idx, id) ==
    [resource_id |-> id,
     provider |-> idx[id].payload.provider,
     duration_min |-> idx[id].payload.duration_min,
     level |-> idx[id].payload.level,
     media_type |-> idx[id].payload.media_type,
     score |-> idx[id].sim - 1]

FormatHit(idx, id) ==
    [resource_id |-> id,
     provider |-> idx[id].payload.provider,
     duration_min |-> idx[id].payload.duration_min,
     level |-> idx[id].payload.level,
     media_type |-> idx[id].payload.media_type,
     score |-> idx[id].sim]

FormatResults(idx, hits) == [i \in DOMAIN hits |-> FormatHit(idx, hits[i])]

\* the predicate search passes as query_filter
QueryFilter(f) == build_filter(f)

\* index queries of one search call: client.search is reached only when
\* generate_single_embedding returned
IndexQueries_Regardless(embedOk) == IF embedOk THEN 1 ELSE 1

IndexQueries(embedOk) == IF embedOk THEN 1 ELSE 0

\* SearchService.search(query, filters, top_k): connect, embed the query,
\* build the predicate, query the index, format the hits.  A failed embedding
\* or index query is raised to the caller, which gets no list.
SearchCall(f, k, embedOk, indexOk) ==
    /\ client' = TRUE
    /\ search_calls' = [embed |-> 1, index |-> IndexQueries(embedOk)]
    /\ IF ~embedOk
       THEN /\ status' = "embed_error"
            /\ UNCHANGED <<filters, top_k, qdrant_filter, results>>
       ELSE IF ~indexOk
       THEN /\ status' = "index_error"
            /\ UNCHANGED <<filters, top_k, qdrant_filter, results>>
       ELSE \E hits \in QdrantSearch(index, QueryFilter(f), k) :
                /\ filters' = f
                /\ top_k' = k
                /\ qdrant_filter' = QueryFilter(f)
                /\ results' = FormatResults(index, hits)
                /\ status' = "ok"
    /\ UNCHANGED index

Search ==
    /\ status = "idle"
    /\ \E f \in FilterInputs, k \in 1..MaxTopK, embedOk \in BOOLEAN,
          indexOk \in BOOLEAN :
          SearchCall(f, k, embedOk, indexOk)

\* the request ends: its candidates are not kept
SearchReturn ==
    /\ status # "idle"
    /\ status' = "idle"
    /\ filters' = NoFilter
    /\ top_k' = 1
    /\ qdrant_filter' = NonePredicate
    /\ results' = <<>>
    /\ search_calls' = NoCalls
    /\ UNCHANGED <<index, client>>

Init == SearchIdle /\ FilterIdle /\ RetryIdle /\ RerankIdle /\ EmbedIdle /\ ServicesIdle

Next ==
    \/ IngestEndpoint /\ UNCHANGED <<filterVars, llm, rr, emb, serviceVars>>
    \/ IngestScript /\ UNCHANGED <<filterVars, llm, rr, emb, serviceVars>>
    \/ UpsertResource /\ UNCHANGED <<filterVars, llm, rr, emb, serviceVars>>
    \/ Search /\ UNCHANGED <<filterVars, llm, rr, emb, serviceVars>>
    \/ SearchReturn /\ UNCHANGED <<filterVars, llm, rr, emb, serviceVars>>

Spec == Init /\ [][Next]_vars

(***************************************************************************)
(* Properties of build_filter (SpecFilter).                                *)
(***************************************************************************)
\* the tenant the filter asks for: "global" when it names none
RequestedTenant(sf) == IF sf.tenant_id = Missing THEN GLOBAL ELSE sf.tenant_id

\* the conditions of a predicate that constrain tenant_id
TenantClauses(pred) ==
    {pred.must[i] : i \in {j \in DOMAIN pred.must :
        pred.must[j].kind = "should" \/ pred.must[j].key = "tenant_id"}}

\* a payload satisfies "key <= v" / "key = v": a payload lacking the key does not
SatisfiesLte(have, v) == have # NoneInt /\ have <= v
SatisfiesEq(have, v) == have # NoneStr /\ have = v

TenantClauseHolds(sf, p) ==
    p.tenant_id # NoneStr /\ p.tenant_id \in {GLOBAL, RequestedTenant(sf)}

\* every predicate whose value the filter carries (is not None) holds of p
SuppliedPredicatesHold(sf, p) ==
    /\ sf.level # NoneInt => SatisfiesLte(p.level, sf.level)
    /\ sf.max_duration_min # NoneInt => SatisfiesLte(p.duration_min, sf.max_duration_min)
    /\ sf.media_type # NoneStr => SatisfiesEq(p.media_type, sf.media_type)
    /\ sf.provider # NoneStr => SatisfiesEq(p.provider, sf.provider)

\* every predicate whose value is truthy in Python holds of p; level counts
\* whenever it is not None
TruthyPredicatesHold(sf, p) ==
    /\ sf.level # NoneInt => SatisfiesLte(p.level, sf.level)
    /\ (sf.max_duration_min # NoneInt /\ sf.max_duration_min # 0)
          => SatisfiesLte(p.duration_min, sf.max_duration_min)
    /\ (sf.media_type # NoneStr /\ sf.media_type # "")
          => SatisfiesEq(p.media_type, sf.media_type)
    /\ (sf.provider # NoneStr /\ sf.provider # "")
          => SatisfiesEq(p.provider, sf.provider)

\* C2: build_filter never returns None or a match-everything predicate, and
\* for None, {}, a filter without tenant id and a filter with tenant id
\* "global" the only tenant clause of the result is tenant_id = "global".
C2_TenantClauseNeverAbsent ==
    sf_pc = "built" =>
        /\ ~sf_output.isNone
        /\ TenantClauses(sf_output) # {}
        /\ \E p \in Payloads : ~Matches(sf_output, p)
        /\ RequestedTenant(sf_input) = GLOBAL =>
              /\ TenantClauses(sf_output) = {FieldMatch("tenant_id", GLOBAL)}
              /\ \A p \in Payloads : Matches(sf_output, p) => p.tenant_id = GLOBAL

C2_Witness ==
    /\ sf_pc = "built"
    /\ sf_input.kind = "dict"
    /\ sf_input.tenant_id = Missing
    /\ sf_input.level = NoneInt /\ sf_input.max_duration_min = NoneInt
    /\ sf_input.media_type = NoneStr /\ sf_input.provider = NoneStr
    /\ sf_output = MustFilter(<<FieldMatch("tenant_id", GLOBAL)>>)

\* C3 as stated: for a tenant T other than "global" a payload matches the
\* built predicate exactly when it is owned by "global" or T and satisfies
\* every supplied predicate (level <= v, duration_min <= v, media_type = v,
\* provider = v).
C3_ConjunctionOfSupplied ==
    (sf_pc = "built" /\ sf_input.kind = "dict" /\ RequestedTenant(sf_input) # GLOBAL) =>
        \A p \in Payloads :
            Matches(sf_output, p)
                <=> (TenantClauseHolds(sf_input, p) /\ SuppliedPredicatesHold(sf_input, p))

\* C3 amended: for a tenant T other than "global" a payload matches the built
\* predicate exactly when it is owned by "global" or T and satisfies every
\* supplied predicate whose value is truthy: level for every value that is
\* not None (0 included), max_duration_min unless 0, media_type and provider
\* unless the empty string.
C3_ConjunctionOfTruthy ==
    (sf_pc = "built" /\ sf_input.kind = "dict" /\ RequestedTenant(sf_input) # GLOBAL) =>
        /\ ~sf_output.isNone
        /\ \A p \in Payloads :
            Matches(sf_output, p)
                <=> (TenantClauseHolds(sf_input, p) /\ TruthyPredicatesHold(sf_input, p))

C3_Witness ==
    /\ sf_pc = "built"
    /\ sf_input.tenant_id = "acme"
    /\ sf_input.level = 1 /\ sf_input.max_duration_min = 1
    /\ sf_input.media_type = "video" /\ sf_input.provider = "coursera"
    /\ Len(sf_output.must) = 5
    /\ \E p \in Payloads : p.tenant_id = "acme" /\ Matches(sf_output, p)
    /\ \E p \in Payloads : p.tenant_id = "acme" /\ ~Matches(sf_output, p)

\* the same filter asked for the shared partition only
AsGlobal(sf) == [sf EXCEPT !.tenant_id = GLOBAL]
WithoutTenant(sf) == [sf EXCEPT !.tenant_id = Missing]

\* C4: a tenant id only broadens: whatever matches the predicate built for
\* tenant "global" (or for no tenant) with the same other predicates also
\* matches the predicate built for the filter's tenant.
C4_TenantOnlyBroadens ==
    (sf_pc = "built" /\ sf_input.kind = "dict") =>
        \A p \in Payloads :
            (Matches(build_filter(AsGlobal(sf_input)), p)
               \/ Matches(build_filter(WithoutTenant(sf_input)), p))
                => Matches(sf_output, p)

C4_Witness ==
    /\ sf_pc = "built"
    /\ sf_input.tenant_id = "acme"
    /\ sf_input.level = 0
    /\ \E p \in Payloads :
          /\ p.tenant_id = GLOBAL
          /\ Matches(build_filter(AsGlobal(sf_input)), p)
          /\ Matches(sf_output, p)
    /\ \E p \in Payloads :
          /\ p.tenant_id = "acme"
          /\ ~Matches(build_filter(AsGlobal(sf_input)), p)
          /\ Matches(sf_output, p)

(***************************************************************************)
(* Properties of ingestion and search (Spec).                              *)
(***************************************************************************)
\* the tenant that owns the point a returned candidate was made from
OwnerOf(candidate) == index[candidate.resource_id].payload.tenant_id

\* C1: tenant isolation of search.  With no filter, no tenant id or tenant id
\* "global" every returned candidate is owned by "global"; with tenant id T
\* every returned candidate is owned by "global" or T.
C1_TenantIsolation ==
    status = "ok" =>
        \A i \in DOMAIN results :
            /\ OwnerOf(results[i]) \in {GLOBAL, RequestedTenant(filters)}
            /\ RequestedTenant(filters) = GLOBAL => OwnerOf(results[i]) = GLOBAL

C1_Witness ==
    /\ status = "ok"
    /\ filters.tenant_id = "acme"
    /\ filters.level = NoneInt /\ filters.max_duration_min = NoneInt
    /\ filters.media_type = NoneStr /\ filters.provider = NoneStr
    /\ top_k = MaxTopK
    /\ \E id \in DOMAIN index : index[id].payload.tenant_id = "beta"
    /\ \E i \in DOMAIN results : OwnerOf(results[i]) = "acme"
    /\ Len(results) = 1

\* C5: every point ingestion writes carries a tenant_id, "global" when the
\* resource supplied none, so a resource ingested without a tenant id is
\* matched by the predicate of a search with no filter.
C5_IngestionTagsTenant ==
    [][\A url \in PointIds, r \in SeedResources, tenant \in FilterTenants :
          (IngestEndpointOne(url, r, tenant, TRUE, TRUE) \/ IngestScriptOne(url, r, tenant, TRUE))
            => /\ index'[url].payload.tenant_id # NoneStr
               /\ tenant = Missing =>
                    /\ index'[url].payload.tenant_id = GLOBAL
                    /\ Matches(build_filter(NoFilter), index'[url].payload)]_vars

(***************************************************************************)
(* Properties of the retry loop (SpecRetry).                               *)
(***************************************************************************)
\* a malformed response: unparseable text or schema-invalid JSON
Malformed(resp) == resp.kind \in {"bad_json", "schema_invalid"}

\* the response made the client's parse step raise a JSON parse error or a
\* schema ValidationError
FailsValidation(c, resp) ==
    ~Parse(c, resp).ok /\ Parse(c, resp).exc \in {"JSONDecodeError", "ValidationError"}

ValidationErrorOf(resp) ==
    IF resp.kind = "schema_invalid" THEN "ValidationError" ELSE "JSONDecodeError"

\* what a call that validated the response of text `id` hands back
HoldsContent(c, value, id) ==
    IF c = "plan"
    THEN value.kind = "plan" /\ value.plan.reasoning = id
    ELSE /\ value.kind = "quiz"
         /\ Len(value.questions) = 1
         /\ value.questions[1].question_text = id
         /\ value.questions[1].citation = "quoted"

\* C6: a call makes at most max_retries model calls and does not stay in its
\* loop beyond them; against a backend whose every response is malformed it
\* raises a JSON parse error or schema ValidationError after exactly
\* max_retries calls.
C6_RetryTermination ==
    \A c \in Clients :
        LET st == llm[c]
        IN  /\ st.calls <= max_retries
            /\ st.calls = Len(st.seen)
            /\ st.pc = "loop" => st.calls < max_retries
            /\ (st.seen # <<>> /\ \A i \in DOMAIN st.seen : Malformed(st.seen[i])) =>
                  IF Len(st.seen) = max_retries
                  THEN /\ st.pc = "raised"
                       /\ st.raised.type \in {"JSONDecodeError", "ValidationError"}
                       /\ st.calls = max_retries
                  ELSE st.pc = "loop"

C6_Witness ==
    \A c \in Clients :
        /\ llm[c].pc = "raised"
        /\ llm[c].calls = max_retries
        /\ \A i \in DOMAIN llm[c].seen : Malformed(llm[c].seen[i])

\* C7: when the first k-1 responses fail parsing or schema validation and
\* the k-th is valid (k <= max_retries), the call returns the validated
\* content of the k-th response after exactly k model calls and makes no
\* further call; while fewer than max_retries responses have all failed
\* validation, the call is still asking.
C7_RetryConvergence ==
    \A c \in Clients :
        LET st == llm[c]
        IN  /\ (/\ st.pc # "ready"
                /\ Len(st.seen) < max_retries
                /\ \A i \in DOMAIN st.seen : FailsValidation(c, st.seen[i]))
               => st.pc = "loop"
            /\ \A k \in 1..max_retries :
                  (/\ Len(st.seen) >= k
                   /\ \A i \in 1..(k - 1) : FailsValidation(c, st.seen[i])
                   /\ st.seen[k].kind = "valid")
                  => /\ st.pc = "returned"
                     /\ st.calls = k
                     /\ Len(st.seen) = k
                     /\ HoldsContent(c, st.result, st.seen[k].id)

C7_Witness ==
    \A c \in Clients :
        /\ llm[c].pc = "returned"
        /\ llm[c].calls = 2
        /\ llm[c].seen = <<Response("schema_invalid", 1), Response("valid", 2)>>
        /\ HoldsContent(c, llm[c].result, 2)

\* C8: a transport failure of the model call at any attempt ends the call at
\* once: it was the last model call, and the error raised is that transport
\* error, not an earlier validation error.
C8_TransportPropagates ==
    \A c \in Clients : \A k \in DOMAIN llm[c].seen :
        llm[c].seen[k].kind = "transport" =>
            /\ k = Len(llm[c].seen)
            /\ llm[c].calls = k
            /\ llm[c].pc = "raised"
            /\ llm[c].raised = Exc("APIError", llm[c].seen[k], k - 1)

C8_Witness ==
    \A c \in Clients :
        /\ Len(llm[c].seen) = 2
        /\ llm[c].seen[1].kind = "bad_json"
        /\ llm[c].seen[2].kind = "transport"
        /\ llm[c].last_error.type = "JSONDecodeError"
        /\ llm[c].pc = "raised"
        /\ llm[c].raised.type = "APIError"

\* C9: every content-level failure of a response (unparseable text,
\* schema-invalid JSON, JSON that is no object, empty or missing text) is
\* retried while attempts remain: after such a k-th response with
\* k < max_retries the call goes on to its next attempt.
C9_ContentFailuresRetried ==
    \A c \in Clients : \A k \in DOMAIN llm[c].seen :
        (llm[c].seen[k].kind \notin {"valid", "transport"} /\ k < max_retries)
            => (llm[c].pc = "loop" \/ Len(llm[c].seen) > k)

\* C10: when all max_retries attempts fail validation, the call raises the
\* validation error of the last attempt.
C10_LastErrorRaised ==
    \A c \in Clients :
        LET st == llm[c]
        IN  (/\ Len(st.seen) = max_retries
             /\ \A i \in DOMAIN st.seen : FailsValidation(c, st.seen[i]))
            => /\ st.pc = "raised"
               /\ st.raised = Exc(ValidationErrorOf(st.seen[max_retries]),
                                  st.seen[max_retries], max_retries - 1)

C10_Witness ==
    \A c \in Clients :
        /\ llm[c].pc = "raised"
        /\ Len(llm[c].seen) = max_retries
        /\ llm[c].seen[1] = Response("bad_json", 1)
        /\ llm[c].seen[max_retries] = Response("schema_invalid", 2)
        /\ llm[c].raised.type = "ValidationError"
        /\ llm[c].raised.resp = Response("schema_invalid", 2)

\* the error a response made the client's parse step raise at its n-th call
ErrorOf(c, resp, n) == Exc(Parse(c, resp).exc, resp, n - 1)

\* C11: the retry conversation is append-only.  The first model call sends
\* the system message and the prompt; the message list of call n+1 is the
\* list of call n followed by exactly two messages: the assistant message
\* holding the failed response of call n, then the user message holding the
\* error of call n.  Call n sends 2 + 2(n-1) messages.
C11_ConversationAppendOnly ==
    \A c \in Clients :
        LET st == llm[c]
        IN  /\ Len(st.sent) = st.calls
            /\ \A n \in DOMAIN st.sent :
                  /\ Len(st.sent[n]) = 2 + 2 * (n - 1)
                  /\ n = 1 => st.sent[n] = <<SystemMessage, PromptMessage>>
                  /\ n > 1 =>
                        st.sent[n] = st.sent[n - 1]
                            \o <<AssistantMessage(st.seen[n - 1]),
                                 ErrorMessage(ErrorOf(c, st.seen[n - 1], n - 1))>>

C11_Witness ==
    \A c \in Clients :
        /\ Len(llm[c].sent) = max_retries
        /\ llm[c].seen[1] = Response("bad_json", 1)
        /\ llm[c].seen[2] = Response("schema_invalid", 2)
        /\ Len(llm[c].sent[max_retries]) = 2 * max_retries
        /\ llm[c].sent[max_retries][3] = AssistantMessage(Response("bad_json", 1))
        /\ llm[c].sent[max_retries][6].err.type = "ValidationError"

\* the plan a returned generate_plan validated, and the candidate with an id
ValidatedPlan == PlanData(llm["plan"].seen[Len(llm["plan"].seen)].id)

IsCandidate(resource_id) ==
    \E i \in DOMAIN available_resources : available_resources[i].resource_id = resource_id

CandidateOf(resource_id) ==
    available_resources[CHOOSE i \in DOMAIN available_resources :
                            available_resources[i].resource_id = resource_id]

\* C18: enrichment is best-effort and structure-preserving.  The returned
\* plan has the milestones of the validated plan, in order, each with its
\* references in order; a reference to a candidate carries the candidate's
\* title, url, duration (0 when the candidate has none), level and skills
\* besides its own resource_id, why_included and order; a reference to an
\* unknown id is returned as the model gave it, and the call does not raise.
C18_EnrichmentBestEffort ==
    llm["plan"].pc = "returned" =>
        LET plan == ValidatedPlan
            out == llm["plan"].result.plan
        IN  /\ out.reasoning = plan.reasoning
            /\ Len(out.milestones) = Len(plan.milestones)
            /\ \A m \in DOMAIN plan.milestones :
                  /\ out.milestones[m].order = plan.milestones[m].order
                  /\ out.milestones[m].title = plan.milestones[m].title
                  /\ Len(out.milestones[m].resources) = Len(plan.milestones[m].resources)
                  /\ \A r \in DOMAIN plan.milestones[m].resources :
                        LET ref == plan.milestones[m].resources[r]
                            e == out.milestones[m].resources[r]
                        IN  /\ e.resource_id = ref.resource_id
                            /\ e.why_included = ref.why_included
                            /\ e.order = ref.order
                            /\ IF IsCandidate(ref.resource_id)
                               THEN LET full == CandidateOf(ref.resource_id)
                                    IN  /\ e.title = full.title
                                        /\ e.url = full.url
                                        /\ e.duration_min =
                                              IF full.duration_min = AbsentInt
                                              THEN 0 ELSE full.duration_min
                                        /\ e.level = full.level
                                        /\ e.skills = full.skills
                               ELSE /\ e = ref
                                    /\ DOMAIN e = {"resource_id", "why_included", "order"}

C18_Witness ==
    /\ llm["plan"].pc = "returned"
    /\ Len(ValidatedPlan.milestones) = 2
    /\ llm["plan"].result.plan.milestones[1].resources[1] = Reference("r9", 1)
    /\ llm["plan"].result.plan.milestones[1].resources[2].title = "Testing"
    /\ llm["plan"].result.plan.milestones[1].resources[2].duration_min = 0
    /\ llm["plan"].result.plan.milestones[2].resources[1].title = "Python Basics"

(***************************************************************************)
(* Properties of search (Spec), continued.                                 *)
(***************************************************************************)
\* C16: search returns exactly the hits of the index for the built
\* predicate: one candidate per hit, each a distinct matching point, most
\* similar first, with the point's raw similarity as score; min(top_k,
\* number of matching points) of them, none outside the matching points and
\* none less similar than a matching point left out.
C16_SearchReturnsHits ==
    status = "ok" =>
        LET M == MatchingIds(index, build_filter(filters))
        IN  /\ qdrant_filter = build_filter(filters)
            /\ Len(results) = Min(top_k, Cardinality(M))
            /\ \A i \in DOMAIN results :
                  /\ results[i].resource_id \in M
                  /\ results[i].score = index[results[i].resource_id].sim
                  /\ results[i] = FormatHit(index, results[i].resource_id)
            /\ \A i, j \in DOMAIN results :
                  i < j => /\ results[i].resource_id # results[j].resource_id
                           /\ results[i].score >= results[j].score
            /\ \A id \in M :
                  (\A i \in DOMAIN results : results[i].resource_id # id)
                      => \A i \in DOMAIN results : results[i].score >= index[id].sim

C16_Witness ==
    /\ status = "ok"
    /\ top_k = 1
    /\ Cardinality(MatchingIds(index, build_filter(filters))) = 2
    /\ Cardinality(DOMAIN index) = 2
    /\ Len(results) = 1
    /\ results[1].score = 2

\* C17: a search call makes at most one embedding call and at most one index
\* query; when the embedding fails it makes no index query; when either
\* fails the failure is raised and the caller gets no list.
C17_SearchErrorsNotRetried ==
    /\ search_calls.embed <= 1
    /\ search_calls.index <= 1
    /\ status = "embed_error" =>
          search_calls = [embed |-> 1, index |-> 0] /\ results = <<>>
    /\ status = "index_error" =>
          search_calls = [embed |-> 1, index |-> 1] /\ results = <<>>
    /\ status = "ok" => search_calls = [embed |-> 1, index |-> 1]

C17_Witness ==
    /\ status = "embed_error"
    /\ search_calls.index = 0
    /\ \E id \in DOMAIN index : index[id].payload.tenant_id = GLOBAL

(***************************************************************************)
(* Properties of build_filter (SpecFilter), continued.                     *)
(***************************************************************************)
\* the conditions of a predicate on one payload key
ConditionsOn(pred, key) ==
    {pred.must[i] : i \in {j \in DOMAIN pred.must : pred.must[j].key = key}}

\* C19 as stated: the built predicate holds the constraint of level,
\* max_duration_min, media_type and provider exactly when the filter carries
\* a value (not None) for the field, and no condition on the field otherwise.
C19_ConstraintIffSupplied ==
    (sf_pc = "built" /\ sf_input.kind = "dict") =>
        /\ ConditionsOn(sf_output, "level") =
              IF sf_input.level # NoneInt
              THEN {FieldRange("level", sf_input.level)} ELSE {}
        /\ ConditionsOn(sf_output, "duration_min") =
              IF sf_input.max_duration_min # NoneInt
              THEN {FieldRange("duration_min", sf_input.max_duration_min)} ELSE {}
        /\ ConditionsOn(sf_output, "media_type") =
              IF sf_input.media_type # NoneStr
              THEN {FieldMatch("media_type", sf_input.media_type)} ELSE {}
        /\ ConditionsOn(sf_output, "provider") =
              IF sf_input.provider # NoneStr
              THEN {FieldMatch("provider", sf_input.provider)} ELSE {}

\* C19 amended: the level constraint is present exactly when level is not
\* None (level 0 included); the constraints of max_duration_min, media_type
\* and provider are present exactly when the value is truthy: not None, and
\* not 0 or the empty string.  A field without constraint has no condition.
C19_ConstraintIffTruthy ==
    sf_pc = "built" =>
        /\ ConditionsOn(sf_output, "level") =
              IF sf_input.level # NoneInt
              THEN {FieldRange("level", sf_input.level)} ELSE {}
        /\ ConditionsOn(sf_output, "duration_min") =
              IF TruthyInt(sf_input.max_duration_min)
              THEN {FieldRange("duration_min", sf_input.max_duration_min)} ELSE {}
        /\ ConditionsOn(sf_output, "media_type") =
              IF TruthyStr(sf_input.media_type)
              THEN {FieldMatch("media_type", sf_input.media_type)} ELSE {}
        /\ ConditionsOn(sf_output, "provider") =
              IF TruthyStr(sf_input.provider)
              THEN {FieldMatch("provider", sf_input.provider)} ELSE {}
        /\ Len(sf_output.must) = 1
              + Cardinality(ConditionsOn(sf_output, "level"))
              + Cardinality(ConditionsOn(sf_output, "duration_min"))
              + Cardinality(ConditionsOn(sf_output, "media_type"))
              + Cardinality(ConditionsOn(sf_output, "provider"))

C19_Witness ==
    /\ sf_pc = "built"
    /\ sf_input.kind = "dict"
    /\ sf_input.level = 0
    /\ sf_input.max_duration_min = NoneInt
    /\ sf_input.media_type = "video"
    /\ sf_input.provider = NoneStr
    /\ Len(sf_output.must) = 3
    /\ ConditionsOn(sf_output, "level") = {FieldRange("level", 0)}

(***************************************************************************)
(* Properties of rerank (SpecRerank).  The i-th document of the input has  *)
(* resource_id i, so the provider's score for a returned document d is     *)
(* rr.scores[d.resource_id].                                               *)
(***************************************************************************)
\* rerank itself ran to its end (not the /search path that skips it)
RerankReturned == rr.pc = "returned" /\ (rr.caller = "rerank" \/ rr.reranked)

\* the backend gave one score per document
OneScorePerDocument == Len(rr.scores) = Len(rr.documents)

\* the (document, score) pairs rerank sorts
ScoredIds == 1..Min(Len(rr.documents), Len(rr.scores))

C13_ScoreFieldOverwritten ==
    RerankReturned =>
        /\ \A i \in DOMAIN rr.top_docs :
              rr.top_docs[i].score = rr.scores[rr.top_docs[i].resource_id]
        /\ rr.reranked =>
              \A i \in DOMAIN rr.results :
                  rr.results[i].score = rr.scores[rr.results[i].resource_id]

\* C13 amended: rerank returns the provider's score of every returned
\* document in the score list, at the document's position, and returns the
\* documents as it got them (their score field still the similarity); the
\* /search endpoint, when reranking was applied, overwrites the score field
\* of every result with the provider's score for it, and nothing else.
C13_ScoreOverwrittenBySearchEndpoint ==
    RerankReturned =>
        /\ Len(rr.top_scores) = Len(rr.top_docs)
        /\ \A i \in DOMAIN rr.top_docs :
              /\ rr.top_scores[i] = rr.scores[rr.top_docs[i].resource_id]
              /\ rr.top_docs[i] = rr.documents[rr.top_docs[i].resource_id]
        /\ rr.reranked =>
              /\ Len(rr.results) = Len(rr.top_docs)
              /\ \A i \in DOMAIN rr.results :
                    /\ rr.results[i].score = rr.scores[rr.results[i].resource_id]
                    /\ rr.results[i].score # SimOf(rr.results[i].resource_id)
                    /\ rr.results[i] = [rr.top_docs[i] EXCEPT !.score = rr.top_scores[i]]

C13_Witness ==
    /\ RerankReturned
    /\ rr.reranked
    /\ rr.scores = <<0, 2>>
    /\ Len(rr.results) = 2
    /\ rr.results[1].resource_id = 2 /\ rr.results[1].score = 2
    /\ rr.results[2].resource_id = 1 /\ rr.results[2].score = 0
    /\ rr.top_docs[1].score = SimOf(2)

\* C14: rerank returns the documents sorted by provider score, highest
\* first: the score list is non-increasing, its i-th score is the provider's
\* score for the i-th returned document, no document is returned twice, and
\* no (document, score) pair left out has a higher score than one returned.
C14_SortedByScore ==
    RerankReturned =>
        /\ \A i, j \in DOMAIN rr.top_scores : i < j => rr.top_scores[i] >= rr.top_scores[j]
        /\ \A i \in DOMAIN rr.top_docs :
              /\ rr.top_docs[i].resource_id \in ScoredIds
              /\ rr.top_docs[i] = rr.documents[rr.top_docs[i].resource_id]
              /\ rr.top_scores[i] = rr.scores[rr.top_docs[i].resource_id]
        /\ \A i, j \in DOMAIN rr.top_docs :
              i < j => rr.top_docs[i].resource_id # rr.top_docs[j].resource_id
        /\ Len(rr.top_docs) = Min(rr.top_n, Cardinality(ScoredIds))
        /\ \A id \in ScoredIds :
              (\A i \in DOMAIN rr.top_docs : rr.top_docs[i].resource_id # id)
                  => \A i \in DOMAIN rr.top_scores : rr.top_scores[i] >= rr.scores[id]

C14_Witness ==
    /\ RerankReturned
    /\ rr.caller = "rerank"
    /\ Len(rr.documents) = 2
    /\ rr.scores = <<1, 2>>
    /\ rr.top_n = 2
    /\ rr.top_docs = <<rr.documents[2], rr.documents[1]>>
    /\ rr.top_scores = <<2, 1>>

\* C15: the tie-break is stable.  Returned documents with equal provider
\* scores are in their input order, and a document left out is not ahead, in
\* score or (at equal score) in input order, of one returned; so the output
\* order is determined by the score list and the input order.
C15_StableTieBreak ==
    RerankReturned =>
        /\ \A i, j \in DOMAIN rr.top_docs :
              (i < j /\ rr.top_scores[i] = rr.top_scores[j])
                  => rr.top_docs[i].resource_id < rr.top_docs[j].resource_id
        /\ \A id \in ScoredIds :
              (\A i \in DOMAIN rr.top_docs : rr.top_docs[i].resource_id # id)
                  => \A i \in DOMAIN rr.top_docs :
                        \/ rr.top_scores[i] > rr.scores[id]
                        \/ /\ rr.top_scores[i] = rr.scores[id]
                           /\ rr.top_docs[i].resource_id < id

C15_Witness ==
    /\ RerankReturned
    /\ Len(rr.documents) = 3
    /\ rr.scores = <<1, 1, 2>>
    /\ rr.top_n = 2
    /\ rr.top_docs = <<rr.documents[3], rr.documents[1]>>

(***************************************************************************)
(* Properties of the texts handed to an embedding backend (SpecEmbed).     *)
(***************************************************************************)
\* the role prefixes a text carries
PrefixCount(text) ==
    Cardinality({i \in DOMAIN text : text[i] \in {QueryPrefix, PassagePrefix}})

\* C20: every text handed to an embedding backend carries exactly one role
\* prefix: "query: " for instruction "query" and "passage: " otherwise;
\* search hands over "query: " + the query, and ingestion hands over
\* "passage: " + the resource's title/description text.
C20_OneRolePrefix ==
    emb.site # "none" =>
        /\ Len(emb.handed) = Len(emb.texts)
        /\ \A i \in DOMAIN emb.handed :
              /\ PrefixCount(emb.handed[i]) = 1
              /\ emb.handed[i] = <<Prefix(emb.instruction)>> \o emb.texts[i]
              /\ emb.site = "search" => emb.handed[i][1] = QueryPrefix
              /\ emb.site \in {"/ingest/resources", "ingest.py"}
                    => emb.handed[i][1] = PassagePrefix

(***************************************************************************)
(* Properties of rerank (SpecRerank), continued.                           *)
(***************************************************************************)
\* the remote backend answered without a scores field, or with a number of
\* scores that is not the number of documents sent
MalformedReply ==
    /\ rr.use_deepinfra
    /\ rr.provider_calls = 1
    /\ \/ rr.reply = "no_scores"
       \/ rr.reply = "scores" /\ Len(rr.scores) # Len(rr.documents)

\* C25: the remote reranking path does not absorb a malformed reply: when
\* the reply lacks the scores field or carries a number of scores other than
\* the number of documents sent, rerank raises; it returns neither made-up
\* scores nor a list cut to the number of scores received.
C25_MalformedReplyFails ==
    MalformedReply => rr.pc = "raised"

\* C29: in /search the text scored for a candidate is the title followed by
\* the description when the indexed resource has a description, and the
\* title alone otherwise.
C29_RerankTextHasDescription ==
    (rr.caller = "/search" /\ rr.pc \in {"scoring", "returned", "raised"}) =>
        \A i \in DOMAIN rr.doc_texts :
            rr.doc_texts[i] =
                IF TruthyStr(DescriptionOf(rr.documents[i].resource_id))
                THEN <<TitleText(rr.documents[i].title), SpaceText,
                       DescriptionText(rr.documents[i].resource_id)>>
                ELSE <<TitleText(rr.documents[i].title)>>

(***************************************************************************)
(* Properties of the retry loop (SpecRetry), continued.                    *)
(***************************************************************************)
\* the outcomes the two clients are compared on
ProtocolOutcome(resp) ==
    resp.kind \in {"valid", "bad_json", "schema_invalid", "empty", "transport"}

\* how a call ended: Done, Failed with a validation error, or a failure
\* raised at once
TerminalKind(st) ==
    CASE st.pc = "returned" -> "Done"
      [] st.pc = "raised" /\ st.raised.type \in {"JSONDecodeError", "ValidationError"}
            /\ st.raised = st.last_error /\ st.calls = max_retries -> "Failed"
      [] st.pc = "raised" -> "Immediate"
      [] OTHER -> "Running"

\* C27: for every sequence of model outcomes (valid, unparseable,
\* schema-invalid, empty, transport error) generate_plan and generate_quiz
\* make the same number of model calls and end in the same kind of state.
C27_SameRetryProtocol ==
    (\A i \in DOMAIN llm["plan"].seen : ProtocolOutcome(llm["plan"].seen[i])) =>
        /\ llm["plan"].calls = llm["quiz"].calls
        /\ TerminalKind(llm["plan"]) = TerminalKind(llm["quiz"])


\* C22: when the search step of POST /plan returns no resources, the client
\* is answered 404 ("No relevant resources found"), the LLM is not called and
\* no plan is saved.
C22_ZeroCandidatesIs404 ==
    (api.last.endpoint = "generate_plan" /\ api.last.search = "empty") =>
        /\ api.last.status = 404
        /\ ~api.last.llm_called
        /\ ~api.last.wrote

\* C23: get_plan, replan and submit_quiz answer an id absent from the store
\* with 404, after one lookup and without writing to the store.
C23_AbsentIdIs404 ==
    (/\ api.last.endpoint \in {"get_plan", "replan", "submit_quiz"}
     /\ api.last.handed = "connected"
     /\ api.last.absent) =>
        /\ api.last.status = 404
        /\ api.last.lookups = 1
        /\ ~api.last.wrote

\* C30: after a failed connection at startup, get_db_client() connects
\* again: it never hands out a client without connection, and a request
\* made while the database is reachable does not fail on the database.
C30_ConnectionRetried ==
    api.last.endpoint # "none" =>
        /\ api.last.handed # "unconnected"
        /\ api.last.db_up => ~api.last.db_failure

\* C21: with the remote backend selected and no API credential, constructing
\* DeepInfraClient raises, and no EmbeddingService or RerankService is
\* constructed successfully (to fail only at its first embed / rerank call).
RemoteWithoutKey == lazy.use_deepinfra /\ ~lazy.api_key

Constructed(c) == lazy.caller[c].made

C21_CredentialCheckedAtConstruction ==
    RemoteWithoutKey =>
        \A c \in Callers :
            /\ lazy.caller[c].accessor = "get_deepinfra_client" => ~Constructed(c)
            /\ lazy.caller[c].accessor \in {"get_embedding_service", "get_rerank_service"}
                   => ~Constructed(c)

PointsOf(url) == {p \in store.points : p.url = url}

C24_IdempotentUpsertByUrl ==
    \A url \in Urls :
        /\ Cardinality(PointsOf(url)) <= 1
        /\ \A p \in PointsOf(url) :
              /\ store.records[url] # NoRecord
              /\ p.id = store.records[url].id
              /\ p.data = store.records[url].data

\* C28: the candidate is the content of the first fenced json block if the
\* text has one; otherwise, if the text has a brace-delimited span, the first
\* top-level balanced brace-delimited object, whatever braces or objects
\* follow it; otherwise the whole text.
RECURSIVE BalancedEnd(_, _, _)
BalancedEnd(text, i, depth) ==
    IF i > Len(text) THEN 0
    ELSE LET d == CASE text[i] = "{" -> depth + 1
                    [] text[i] = "}" -> depth - 1
                    [] OTHER -> depth
         IN  IF d = 0 THEN i ELSE BalancedEnd(text, i + 1, d)

FirstObject(text) ==
    LET i == First(BraceOpen(text))
    IN  SubSeq(text, i, BalancedEnd(text, i, 0))

HasFirstObject(text) ==
    /\ BraceOpen(text) # {}
    /\ BalancedEnd(text, First(BraceOpen(text)), 0) # 0

C28_ThreeOrderedStrategies ==
    ext.pc = "extracted" =>
        IF FenceOpen(ext.text) # {}
        THEN ext.json_text = FencedGroup(ext.text)
        ELSE IF BraceOpen(ext.text) # {}
        THEN HasFirstObject(ext.text) => ext.json_text = FirstObject(ext.text)
        ELSE ext.json_text = ext.text
====
